---- MODULE Spec2Model ----
(***************************************************************************)
(* A model of beter.py: the command-line entry point (main), the first-time *)
(* setup wizard, the Ollama client helpers, the config store and the        *)
(* response normaliser.  Texts are sequences of one-character strings so    *)
(* that trimming, line splitting and file overwrites are computed, not      *)
(* assumed.                                                                 *)
(***************************************************************************)
EXTENDS Integers, Sequences, FiniteSets, TLC

VARIABLES
    file,     \* the config file CONFIG_FILE: [exists, data]
    inv,      \* the running invocation of main(): its position, locals and outputs
    runs,     \* number of invocations started so far
    rpc,      \* racing first-time setups: position of each invocation
    rmodel,   \* racing first-time setups: model_name of each invocation
    worder,   \* racing first-time setups: the order in which the writes landed
    text,     \* normaliser harness: the input text
    out,      \* normaliser harness: the value clean_response returned
    ndone     \* normaliser harness: clean_response has been applied

vars == <<file, inv, runs, rpc, rmodel, worder, text, out, ndone>>

----------------------------------------------------------------------------
(* Bounds of the model *)

MaxRuns == 2          \* invocations of main() in one behaviour
MaxReplyChunks == 2   \* chunks making up a `response` field in Spec
MaxChunks == 5        \* chunks making up an input text in SpecNorm
MaxLines == 2         \* lines of `ollama list` output

----------------------------------------------------------------------------
(* Program constants *)

StandardModel == "llama3.2:3b"
HighQualityModel == "gemma3:12b"

\* MODELS[tier]['name']
MODELS == [standard |-> StandardModel, high_quality |-> HighQualityModel]

ModelNames == {StandardModel, HighQualityModel}

\* The characters of a model name, as json.dump writes them.
NameChars(m) ==
    IF m = StandardModel
    THEN <<"l", "l", "a", "m", "a", "3", ".", "2", ":", "3", "b">>
    ELSE <<"g", "e", "m", "m", "a", "3", ":", "1", "2", "b">>

\* "# Error: Failed to get response from Ollama: "
ErrorPrefix ==
    <<"#", " ", "E", "r", "r", "o", "r", ":", " ", "F", "a", "i", "l", "e",
      "d", " ", "t", "o", " ", "g", "e", "t", " ", "r", "e", "s", "p", "o",
      "n", "s", "e", " ", "f", "r", "o", "m", " ", "O", "l", "l", "a", "m",
      "a", ":", " ">>

----------------------------------------------------------------------------
(* Python string primitives *)

\* The characters str.strip() removes (those that occur in the model).
Whitespace == {" ", "\n", "\t"}

RECURSIVE lstrip(_)
lstrip(s) ==
    IF s # <<>> /\ Head(s) \in Whitespace THEN lstrip(Tail(s)) ELSE s

RECURSIVE rstrip(_)
rstrip(s) ==
    IF s # <<>> /\ s[Len(s)] \in Whitespace
    THEN rstrip(SubSeq(s, 1, Len(s) - 1))
    ELSE s

\* str.strip()
strip(s) == rstrip(lstrip(s))

\* str.startswith(p)
startswith(s, p) == Len(s) >= Len(p) /\ SubSeq(s, 1, Len(p)) = p

\* str.split('\n'): the pieces between newlines, always at least one piece
RECURSIVE split(_)
split(s) ==
    IF \A i \in 1..Len(s) : s[i] # "\n"
    THEN <<s>>
    ELSE LET i == CHOOSE k \in 1..Len(s) :
                      s[k] = "\n" /\ \A j \in 1..(k - 1) : s[j] # "\n"
         IN  <<SubSeq(s, 1, i - 1)>> \o split(SubSeq(s, i + 1, Len(s)))

\* '\n'.join(parts)
RECURSIVE join(_)
join(parts) ==
    IF parts = <<>> THEN <<>>
    ELSE IF Len(parts) = 1 THEN parts[1]
    ELSE parts[1] \o <<"\n">> \o join(Tail(parts))

\* parts[1:-1]
slice_1_m1(parts) == SubSeq(parts, 2, Len(parts) - 1)

\* parts[1:]   (the slice with the last line kept)
slice_1(parts) == SubSeq(parts, 2, Len(parts))

\* The backtick character (U+0060), which a TLA+ string literal cannot hold.
BT == "bt"

Fence == <<BT, BT, BT>>

\* clean_response with the closing line kept
clean_response_keep_last(t) ==
    IF startswith(t, Fence)
    THEN strip(join(slice_1(split(t))))
    ELSE strip(t)

\* clean_response(text)
clean_response(t) ==
    IF startswith(t, Fence)
    THEN strip(join(slice_1_m1(split(t))))
    ELSE strip(t)

----------------------------------------------------------------------------
(* Input texts *)

Chunks == {Fence, <<BT>>, <<"\n">>, <<" ">>, <<"\t">>, <<"x">>}

RECURSIVE TextsUpTo(_)
TextsUpTo(n) ==
    IF n = 0 THEN {<<>>}
    ELSE LET prev == TextsUpTo(n - 1)
         IN  prev \cup {c \o t : c \in Chunks, t \in prev}

\* "```bash\necho hi\n```"
FencedExample ==
    <<BT, BT, BT, "b", "a", "s", "h", "\n", "e", "c", "h", "o", " ", "h",
      "i", "\n", BT, BT, BT>>

\* "echo hi"
EchoHi == <<"e", "c", "h", "o", " ", "h", "i">>

NormInputs == TextsUpTo(MaxChunks) \cup {FencedExample}

ReplyTexts == TextsUpTo(MaxReplyChunks) \cup {FencedExample}

----------------------------------------------------------------------------
(* Config store *)

NoFile == [exists |-> FALSE, data |-> <<>>]

\* load_config's None
None == [kind |-> "None", has |-> FALSE, chosen_model |-> ""]

\* {"chosen_model": m}
ConfigOf(m) == [kind |-> "dict", has |-> TRUE, chosen_model |-> m]

\* {}
EmptyDict == [kind |-> "dict", has |-> FALSE, chosen_model |-> ""]

\* json.load raising json.JSONDecodeError
DecodeError == [kind |-> "JSONDecodeError", has |-> FALSE, chosen_model |-> ""]

\* json.dump(config, f, indent=2) for config = {"chosen_model": m}
json_dump(m) ==
    <<"{", "\n", " ", " ", "\"", "c", "h", "o", "s", "e", "n", "_", "m", "o",
      "d", "e", "l", "\"", ":", " ", "\"">> \o NameChars(m) \o <<"\"", "\n", "}">>

\* json.load(f), on the file contents that occur in the model: the empty
\* object, a dumped {"chosen_model": m} record, and texts that are not JSON.
json_load(data) ==
    IF data = <<"{", "}">> THEN EmptyDict
    ELSE IF \E m \in ModelNames : data = json_dump(m)
    THEN ConfigOf(CHOOSE m \in ModelNames : data = json_dump(m))
    ELSE DecodeError

\* load_config()
load_config(f) == IF ~f.exists THEN None ELSE json_load(f.data)

\* Python truth value of what load_config returned: `if not config`
truthy(c) == c.kind = "dict" /\ c.has

\* open(CONFIG_FILE, 'w'): creates the file or truncates it to length 0
open_w(f) == [exists |-> TRUE, data |-> <<>>]

\* write(2) of `bytes` through a descriptor whose offset is `off`
write_at(f, off, bytes) ==
    [exists |-> TRUE,
     data |-> SubSeq(f.data, 1, off) \o bytes
                \o SubSeq(f.data, off + Len(bytes) + 1, Len(f.data))]

\* save_config(config) run without interruption
save_config(f, m) == write_at(open_w(f), 0, json_dump(m))

----------------------------------------------------------------------------
(* Ollama client *)

\* What GET /api/tags can do: answer with a success status, answer with a
\* non-success status (404, 500), fail to connect, time out after 3 s.
ProbeOutcomes == {"ok", "status", "connerr", "timeout"}

\* The outcomes requests.get raises a RequestException for.
RequestExceptions == {"connerr", "timeout"}

\* is_service_running with the status checked (raise_for_status)
is_service_running_checked(o) == o = "ok"

\* OllamaManager.is_service_running()
is_service_running(o) == o \notin RequestExceptions

\* One line of `ollama list` output: a JSON object with a name, a JSON
\* object without one, a JSON value that is no object, a line that is no JSON.
ListLines ==
    {[kind |-> "named", name |-> m] : m \in ModelNames}
        \cup {[kind |-> k, name |-> ""] : k \in {"noname", "scalar", "nojson"}}

RECURSIVE SeqsUpTo(_, _)
SeqsUpTo(S, n) ==
    IF n = 0 THEN {<<>>}
    ELSE LET prev == SeqsUpTo(S, n - 1)
         IN  prev \cup {<<x>> \o t : x \in S, t \in {q \in prev : Len(q) = n - 1}}

\* What running `ollama list` can do.
ListOutcomes ==
    {[proc |-> "ok", lines |-> l] : l \in SeqsUpTo(ListLines, MaxLines)}
        \cup {[proc |-> p, lines |-> <<>>] :
                p \in {"CalledProcessError", "FileNotFoundError"}}

NoListing == [proc |-> "none", lines |-> <<>>]

\* result.stdout.strip().split('\n'): empty output gives one empty line
stdout_lines(l) == IF l = <<>> THEN <<[kind |-> "nojson", name |-> ""]>> ELSE l

\* OllamaManager.get_installed_models(): [exc, models]
get_installed_models(o) ==
    LET ls == stdout_lines(o.lines)
        bad(k) == {i \in 1..Len(ls) : ls[i].kind = k}
        first == CHOOSE i \in bad("noname") \cup bad("scalar") :
                    \A j \in bad("noname") \cup bad("scalar") : i <= j
    IN  IF o.proc # "ok" THEN [exc |-> "none", models |-> <<>>]
        ELSE IF bad("nojson") # {} THEN [exc |-> "none", models |-> <<>>]
        ELSE IF bad("noname") \cup bad("scalar") # {}
        THEN [exc |-> IF ls[first].kind = "noname" THEN "KeyError" ELSE "TypeError",
              models |-> <<>>]
        ELSE [exc |-> "none", models |-> [i \in 1..Len(ls) |-> ls[i].name]]

\* model_name in installed_models
contains(models, m) == \E i \in 1..Len(models) : models[i] = m

PullOutcomes == {"ok", "fail", "FileNotFoundError"}

\* OllamaManager.pull_model(model_name)
pull_model(o) == o = "ok"

\* What POST /api/generate can do: a success reply whose JSON object has a
\* string `response` field or none, a reply with a non-success status, a
\* connection error, a timeout, a body that is no JSON, a `response` field
\* that is no string.
Replies ==
    {[kind |-> "ok", has |-> TRUE, response |-> t] : t \in ReplyTexts}
        \cup {[kind |-> k, has |-> FALSE, response |-> <<>>] :
                k \in {"ok", "status", "connerr", "timeout", "badjson", "nonstring"}}

NoReply == [kind |-> "none", has |-> FALSE, response |-> <<>>]

TransportErrors == {"status", "connerr", "timeout"}

\* str(e): the details of the exception, one token standing for its text
ErrText(k) == <<k>>

\* query_beter without the try/except
query_beter_uncaught(r) ==
    IF r.kind = "ok"
    THEN [exc |-> "none", value |-> clean_response(strip(r.response))]
    ELSE [exc |-> r.kind, value |-> <<>>]

\* query_beter without the .strip() before clean_response
query_beter_nostrip(r) ==
    IF r.kind = "ok"
    THEN [exc |-> "none", value |-> clean_response(r.response)]
    ELSE [exc |-> "none", value |-> ErrorPrefix \o ErrText(r.kind)]

\* query_beter(model_name, user_prompt): [exc, value]
query_beter(r) ==
    IF r.kind = "ok"
    THEN [exc |-> "none", value |-> clean_response(strip(r.response))]
    ELSE [exc |-> "none", value |-> ErrorPrefix \o ErrText(r.kind)]

----------------------------------------------------------------------------
(* The entry point: one invocation of main() at a time *)

\* The locals and outputs of an invocation, before it starts.
IdleInv ==
    [pc |-> "idle", argv |-> "none", start |-> NoFile, config |-> None,
     setup |-> FALSE, engine |-> "none", probe |-> "none", live |-> "none",
     choice |-> "", listing |-> NoListing, installed |-> <<>>,
     pull |-> "none", reply |-> NoReply, printed |-> FALSE, stdout |-> <<>>,
     exc |-> "none", exitCode |-> -1, genCalls |-> 0, saves |-> 0,
     gates |-> <<>>, hint |-> FALSE]

\* sys.exit(code)
exit(r, code) == [r EXCEPT !.pc = "done", !.exitCode = code]

\* An exception nothing catches: the interpreter prints it and exits with 1.
uncaught(r, e) == [r EXCEPT !.pc = "done", !.exc = e, !.exitCode = 1]

RaceIdle == rpc = [p \in {1, 2} |-> "off"]

OnlyInv == UNCHANGED <<file, runs, rpc, rmodel, worder, text, out, ndone>>

\* main(), lines 160-172: the arguments, load_config, the branch on it
main_start ==
    /\ RaceIdle
    /\ inv.pc \in {"idle", "done"}
    /\ runs < MaxRuns
    /\ \E a \in {"none", "help", "prompt"} :
         LET c == load_config(file)
             r == [IdleInv EXCEPT !.argv = a, !.start = file]
         IN  inv' = IF a # "prompt" THEN exit(r, 0)
                    ELSE IF c.kind = "JSONDecodeError"
                    THEN uncaught(r, "JSONDecodeError")
                    ELSE IF ~truthy(c)
                    THEN [r EXCEPT !.pc = "installed", !.config = c, !.setup = TRUE]
                    ELSE [r EXCEPT !.pc = "probe", !.config = c]
    /\ runs' = runs + 1
    /\ UNCHANGED <<file, rpc, rmodel, worder, text, out, ndone>>

\* first_time_setup(), lines 101-106: is Ollama installed
setup_check_installed ==
    /\ inv.pc = "installed"
    /\ \E present \in BOOLEAN :
         inv' = IF present
                THEN [inv EXCEPT !.pc = "service", !.engine = "true",
                                 !.gates = Append(@, "engine")]
                ELSE exit([inv EXCEPT !.engine = "false"], 1)
    /\ OnlyInv

\* first_time_setup(), lines 108-114: is the service running
setup_check_service ==
    /\ inv.pc = "service"
    /\ \E o \in ProbeOutcomes :
         LET r == [inv EXCEPT !.probe = o] IN
         inv' = IF is_service_running(o)
                THEN [r EXCEPT !.pc = "choice", !.live = "true",
                               !.gates = Append(@, "service")]
                ELSE exit([r EXCEPT !.live = "false"], 1)
    /\ OnlyInv

\* first_time_setup(), lines 123-128: one turn of the input loop
setup_choice ==
    /\ inv.pc = "choice"
    /\ \E c \in {"1", "2", "3", "", "EOF"} :
         inv' = IF c = "EOF" THEN uncaught(inv, "EOFError")
                ELSE IF c \in {"1", "2"}
                THEN [inv EXCEPT !.pc = "models", !.choice = c,
                                 !.gates = Append(@, "choice")]
                ELSE [inv EXCEPT !.choice = c]
    /\ OnlyInv

\* chosen_tier and model_name, lines 127-128
model_name(choice) ==
    IF choice = "1" THEN MODELS.standard ELSE MODELS.high_quality

\* first_time_setup(), lines 130-135: the installed models
setup_models ==
    /\ inv.pc = "models"
    /\ \E o \in ListOutcomes :
         LET got == get_installed_models(o)
             r == [inv EXCEPT !.listing = o, !.installed = got.models]
         IN  inv' = IF got.exc # "none" THEN uncaught(r, got.exc)
                    ELSE IF contains(got.models, model_name(inv.choice))
                    THEN [r EXCEPT !.pc = "save", !.gates = Append(@, "model")]
                    ELSE [r EXCEPT !.pc = "pull"]
    /\ OnlyInv

\* the pull with its result ignored
setup_pull_ignore ==
    /\ inv.pc = "pull"
    /\ \E o \in PullOutcomes :
         inv' = [inv EXCEPT !.pc = "save", !.pull = o,
                            !.gates = Append(@, "model")]
    /\ OnlyInv

\* first_time_setup(), lines 131-133: pull the model that is not installed
setup_pull ==
    /\ inv.pc = "pull"
    /\ \E o \in PullOutcomes :
         LET r == [inv EXCEPT !.pull = o] IN
         inv' = IF pull_model(o)
                THEN [r EXCEPT !.pc = "save", !.gates = Append(@, "model")]
                ELSE exit(r, 1)
    /\ OnlyInv

\* setup that goes on to answer the question
setup_save_chain ==
    /\ inv.pc = "save"
    /\ file' = save_config(file, model_name(inv.choice))
    /\ inv' = [inv EXCEPT !.pc = "probe", !.saves = @ + 1, !.hint = TRUE,
                          !.config = ConfigOf(model_name(inv.choice))]
    /\ UNCHANGED <<runs, rpc, rmodel, worder, text, out, ndone>>

\* first_time_setup(), lines 137-140, and main(), lines 168-172: save the
\* config, print the re-run hint, exit 0
setup_save ==
    /\ inv.pc = "save"
    /\ file' = save_config(file, model_name(inv.choice))
    /\ inv' = exit([inv EXCEPT !.saves = @ + 1, !.hint = TRUE,
                               !.config = ConfigOf(model_name(inv.choice))], 0)
    /\ UNCHANGED <<runs, rpc, rmodel, worder, text, out, ndone>>

\* the liveness check that does not exit
main_check_service_noexit ==
    /\ inv.pc = "probe"
    /\ \E o \in ProbeOutcomes :
         inv' = [inv EXCEPT !.pc = "query", !.probe = o,
                    !.live = IF is_service_running(o) THEN "true" ELSE "false"]
    /\ OnlyInv

\* main(), lines 175-177: is the service running
main_check_service ==
    /\ inv.pc = "probe"
    /\ \E o \in ProbeOutcomes :
         LET r == [inv EXCEPT !.probe = o] IN
         inv' = IF is_service_running(o)
                THEN [r EXCEPT !.pc = "query", !.live = "true"]
                ELSE exit([r EXCEPT !.live = "false"], 1)
    /\ OnlyInv

\* main(), lines 179-183: one generate request, print what query_beter
\* returned, fall off the end of main (exit code 0)
main_query ==
    /\ inv.pc = "query"
    /\ \E rep \in Replies :
         LET got == query_beter(rep)
             r == [inv EXCEPT !.reply = rep, !.genCalls = @ + 1]
         IN  inv' = IF got.exc # "none" THEN uncaught(r, got.exc)
                    ELSE exit([r EXCEPT !.printed = TRUE, !.stdout = got.value], 0)
    /\ OnlyInv

\* The contents the config file can have when BeTer is started.
InitFiles ==
    {NoFile, [exists |-> TRUE, data |-> <<"{", "}">>],
     [exists |-> TRUE, data |-> <<"{">>],
     [exists |-> TRUE, data |-> json_dump(HighQualityModel) \o <<"}">>]}
        \cup {[exists |-> TRUE, data |-> json_dump(m)] : m \in ModelNames}

Init ==
    /\ file \in InitFiles
    /\ inv = IdleInv
    /\ runs = 0
    /\ rpc = [p \in {1, 2} |-> "off"]
    /\ rmodel = [p \in {1, 2} |-> ""]
    /\ worder = <<>>
    /\ text = <<>>
    /\ out = <<>>
    /\ ndone = FALSE

Next ==
    \/ main_start
    \/ setup_check_installed
    \/ setup_check_service
    \/ setup_choice
    \/ setup_models
    \/ setup_pull
    \/ setup_save
    \/ main_check_service
    \/ main_query

Spec == Init /\ [][Next]_vars

----------------------------------------------------------------------------
(* Two invocations in first-time setup at once.  Each has found no usable  *)
(* config, passed the gates and is about to choose a model; save_config is  *)
(* two steps: open(CONFIG_FILE, 'w'), which truncates, and the write of the *)
(* buffered json.dump text when the with-block closes the file.  Each       *)
(* invocation writes through its own descriptor, whose offset starts at 0.  *)

Procs == {1, 2}

OnlyRace == UNCHANGED <<inv, runs, text, out, ndone>>

\* first_time_setup(), lines 123-137: the choice and the config to save
race_choose(p) ==
    /\ rpc[p] = "choice"
    /\ \E c \in {"1", "2"} :
         rmodel' = [rmodel EXCEPT ![p] = model_name(c)]
    /\ rpc' = [rpc EXCEPT ![p] = "models"]
    /\ UNCHANGED <<file, worder>>
    /\ OnlyRace

\* first_time_setup(), lines 130-135: the model is installed or pulled, or
\* the pull fails and the invocation exits with 1 before save_config
race_models(p) ==
    /\ rpc[p] = "models"
    /\ \E lo \in {o \in ListOutcomes : get_installed_models(o).exc = "none"},
          po \in PullOutcomes :
         rpc' = [rpc EXCEPT ![p] =
                   IF contains(get_installed_models(lo).models, rmodel[p])
                      \/ pull_model(po)
                   THEN "open" ELSE "exit"]
    /\ UNCHANGED <<file, rmodel, worder>>
    /\ OnlyRace

\* save_config(), line 53: open(CONFIG_FILE, 'w')
race_open(p) ==
    /\ rpc[p] = "open"
    /\ file' = open_w(file)
    /\ rpc' = [rpc EXCEPT ![p] = "write"]
    /\ UNCHANGED <<rmodel, worder>>
    /\ OnlyRace

\* save_config(), line 54: json.dump and the close that flushes it
race_write(p) ==
    /\ rpc[p] = "write"
    /\ file' = write_at(file, 0, json_dump(rmodel[p]))
    /\ worder' = Append(worder, p)
    /\ rpc' = [rpc EXCEPT ![p] = "done"]
    /\ UNCHANGED rmodel
    /\ OnlyRace

RaceInit ==
    /\ file \in {NoFile, [exists |-> TRUE, data |-> <<"{", "}">>]}
    /\ inv = IdleInv
    /\ runs = 0
    /\ rpc = [p \in Procs |-> "choice"]
    /\ rmodel = [p \in Procs |-> ""]
    /\ worder = <<>>
    /\ text = <<>>
    /\ out = <<>>
    /\ ndone = FALSE

RaceNext == \E p \in Procs : race_choose(p) \/ race_models(p) \/ race_open(p) \/ race_write(p)

SpecRace == RaceInit /\ [][RaceNext]_vars

----------------------------------------------------------------------------
(* The normaliser applied to one input text *)

normalize ==
    /\ ~ndone
    /\ out' = clean_response(text)
    /\ ndone' = TRUE
    /\ UNCHANGED <<file, inv, runs, rpc, rmodel, worder, text>>

NormInit ==
    /\ file = NoFile
    /\ inv = IdleInv
    /\ runs = 0
    /\ rpc = [p \in Procs |-> "off"]
    /\ rmodel = [p \in Procs |-> ""]
    /\ worder = <<>>
    /\ text \in NormInputs
    /\ out = <<>>
    /\ ndone = FALSE

NormNext == normalize

SpecNorm == NormInit /\ [][NormNext]_vars

----------------------------------------------------------------------------
(* The properties.  The words of the specification are stated here on     *)
(* their own terms: trimming by the first and last non-blank position, the  *)
(* first and last line by the first and last newline.                       *)

Min(S) == CHOOSE x \in S : \A y \in S : x <= y
Max(S) == CHOOSE x \in S : \A y \in S : x >= y

\* t with leading and trailing whitespace removed and no other change
Trim(t) ==
    LET keep == {i \in 1..Len(t) : t[i] \notin Whitespace}
    IN  IF keep = {} THEN <<>> ELSE SubSeq(t, Min(keep), Max(keep))

BeginsWithFence(t) == Len(t) >= 3 /\ t[1] = BT /\ t[2] = BT /\ t[3] = BT

\* t with its first and its last line discarded: what lies strictly between
\* the first and the last newline (nothing when t has fewer than three lines)
Middle(t) ==
    LET nl == {i \in 1..Len(t) : t[i] = "\n"}
    IN  IF Cardinality(nl) < 2 THEN <<>>
        ELSE SubSeq(t, Min(nl) + 1, Max(nl) - 1)

\* normalize of section 4.3
NormalizeSpec(t) == IF BeginsWithFence(t) THEN Trim(Middle(t)) ELSE Trim(t)

FileOf(m) == [exists |-> TRUE, data |-> json_dump(m)]

\* C1: an invocation with a prompt that finds the config file present and
\* whose liveness probe returns false exits with code 1 and has made no
\* generate request.
C1_ServiceDownExits1 ==
    (inv.argv = "prompt" /\ inv.start.exists /\ inv.live = "false")
        => (inv.pc = "done" /\ inv.exitCode = 1 /\ inv.genCalls = 0
            /\ ~inv.printed)

C1_Witness ==
    /\ inv.argv = "prompt" /\ truthy(inv.config) /\ ~inv.setup
    /\ inv.probe = "timeout" /\ inv.live = "false"
    /\ inv.pc = "done" /\ inv.exitCode = 1

\* C2: an invocation that starts with no config file never calls generate;
\* with the engine present, the service live, tier "1" chosen and the
\* standard model listed as installed it leaves {"chosen_model":
\* "llama3.2:3b"} in the file, prints the re-run hint and exits 0 without
\* printing an answer.
C2_FirstRunSetsUpOnly ==
    ~inv.start.exists =>
        /\ inv.genCalls = 0
        /\ ~inv.printed
        /\ (/\ inv.pc = "done" /\ inv.engine = "true" /\ inv.live = "true"
            /\ inv.choice = "1" /\ contains(inv.installed, StandardModel))
             => /\ file = FileOf(StandardModel)
                /\ load_config(file) = ConfigOf(StandardModel)
                /\ inv.exitCode = 0
                /\ inv.hint

C2_Witness ==
    /\ inv.argv = "prompt" /\ ~inv.start.exists /\ inv.pc = "done"
    /\ inv.choice = "1" /\ contains(inv.installed, StandardModel)
    /\ inv.pull = "none" /\ inv.saves = 1
    /\ file = FileOf(StandardModel) /\ inv.exitCode = 0 /\ inv.hint

\* C3: generate raises nothing; when the request fails with a connection
\* error, a timeout or a non-success status, the text printed begins with
\* "# Error: Failed to get response from Ollama: " and the exit code is 0.
C3_TransportErrorSentinel ==
    /\ inv.genCalls > 0 => inv.exc = "none"
    /\ inv.reply.kind \in TransportErrors
         => /\ inv.printed
            /\ startswith(inv.stdout, ErrorPrefix)
            /\ inv.pc = "done"
            /\ inv.exitCode = 0

C3_Witness ==
    /\ inv.reply.kind = "timeout" /\ inv.printed
    /\ inv.stdout = ErrorPrefix \o ErrText("timeout")
    /\ inv.exitCode = 0

\* C4 as stated: after a successful generate reply the text printed is
\* normalize applied directly to the `response` field.
C4_PrintsNormalizeOfField ==
    (inv.printed /\ inv.reply.kind = "ok")
        => inv.stdout = NormalizeSpec(inv.reply.response)

\* C4 amended: after a successful generate reply the text printed is
\* normalize applied to the `response` field with its surrounding whitespace
\* already removed.
C4_PrintsNormalizeOfTrimmedField ==
    (inv.printed /\ inv.reply.kind = "ok")
        => /\ inv.stdout = NormalizeSpec(Trim(inv.reply.response))
           /\ inv.pc = "done" /\ inv.exitCode = 0 /\ inv.genCalls = 1

C4_Witness ==
    /\ inv.printed /\ inv.reply.kind = "ok" /\ inv.reply.has
    /\ inv.stdout # NormalizeSpec(inv.reply.response)
    /\ inv.stdout = NormalizeSpec(Trim(inv.reply.response))

\* C5: normalize of a text that begins with three backticks is the text
\* without its first and its last line, trimmed; of any other text it is the
\* text trimmed; normalize("```bash\necho hi\n```") is "echo hi".
C5_Normalize ==
    ndone =>
        /\ out = NormalizeSpec(text)
        /\ ~BeginsWithFence(text) => out = Trim(text)
        /\ BeginsWithFence(text) => out = Trim(Middle(text))
        /\ text = FencedExample => out = EchoHi

C5_Witness == ndone /\ text = FencedExample /\ out = EchoHi

\* A gate of the setup flow that was not met.
GateUnmet ==
    /\ inv.setup
    /\ \/ inv.engine = "false"
       \/ inv.live = "false"
       \/ inv.pull \in PullOutcomes \ {"ok"}

\* C6: the setup flow writes the config only after the gates were passed in
\* order (engine, service, choice, model installed or pulled); when a gate
\* is unmet the invocation ends with exit code 1 and the config file is as
\* the invocation found it.
C6_GatesBeforeSave ==
    /\ inv.saves > 0
         => /\ inv.gates = <<"engine", "service", "choice", "model">>
            /\ inv.engine = "true" /\ inv.live = "true"
            /\ inv.choice \in {"1", "2"}
            /\ \/ contains(inv.installed, model_name(inv.choice))
               \/ inv.pull = "ok"
    /\ (inv.pc # "idle" /\ file # inv.start) => inv.saves > 0
    /\ GateUnmet
         => /\ inv.pc = "done" /\ inv.exitCode = 1
            /\ inv.saves = 0 /\ file = inv.start

C6_Witness ==
    /\ inv.setup /\ inv.pc = "done" /\ inv.saves = 1 /\ inv.pull = "ok"
    /\ ~contains(inv.installed, model_name(inv.choice))
    /\ file # inv.start

\* Listing output that is not one JSON object with a name per line, or a
\* listing process that failed or could not be started.
Malformed(o) ==
    \/ o.proc # "ok"
    \/ o.lines = <<>>
    \/ \E i \in 1..Len(o.lines) : o.lines[i].kind # "named"

\* C7: list_installed_models raises nothing; on a failed process, malformed
\* output or a missing executable it returns the empty sequence, and the
\* setup flow goes on to pull the model.
C7_ListingNeverRaises ==
    (inv.listing.proc # "none" /\ Malformed(inv.listing))
        => /\ inv.exc = "none"
           /\ inv.installed = <<>>
           /\ inv.pc = "pull" \/ inv.pull # "none"

\* C8 as stated: the probe returns true only when GET /api/tags succeeded,
\* and false on a network error, a timeout or any other non-success outcome.
C8_TrueOnlyOnSuccess ==
    inv.probe # "none"
        => /\ inv.live \in {"true", "false"}
           /\ inv.live = "true" <=> inv.probe = "ok"

\* C8 amended: the probe returns false exactly when the request raised a
\* network error or timed out, and true whenever an HTTP response arrived,
\* whatever its status.
C8_TrueOnAnyResponse ==
    inv.probe # "none"
        => /\ inv.live \in {"true", "false"}
           /\ inv.live = "false" <=> inv.probe \in {"connerr", "timeout"}
           /\ inv.live = "true" <=> inv.probe \in {"ok", "status"}

C8_Witness == inv.probe = "status" /\ inv.live = "true" /\ inv.pc = "query"

\* C9: an invocation that finds the config file present, whatever it holds,
\* does not run the setup flow and does not rewrite the file.
C9_ExistingFileNeverRewritten ==
    inv.start.exists
        => /\ file = inv.start
           /\ ~inv.setup
           /\ inv.saves = 0

\* C10: when both racing setups have saved, the file holds exactly the
\* record of the one that wrote last, a well-formed {chosen_model} record.
C10_LastWriterWins ==
    (\A p \in Procs : rpc[p] = "done")
        => /\ file = FileOf(rmodel[worder[Len(worder)]])
           /\ truthy(load_config(file))

====
